---- MODULE Spec2Model ----
(***************************************************************************)
(* The chat page of mini-webui (routes/(app)/+page.svelte) together with   *)
(* its two input components (GuestMessageInput, MessageInput) and the      *)
(* parts of lib/apis/chats the page drives.                                *)
(*                                                                         *)
(* Text is a sequence of characters; the empty string is <<>>.  Indices    *)
(* into `messages` are 0-based as in the code; NULL stands for null.       *)
(***************************************************************************)
EXTENDS Integers, Sequences, FiniteSets, Bags, TLC

\* ------------------------------------------------------------------ bounds
MaxSends  == 2   \* handleSend invocations accepted in one session
MaxEvents == 2   \* chunk / control callbacks invoked by one stream
MaxTasks  == 1   \* page calls in flight when the user may still pick a chat

NULL == 0 - 1

\* ------------------------------------------------------------ input values
Texts  == { <<>>, <<" ">>, <<"h">> }          \* what the textarea may hold on Send
Chunks == { <<"a">>, <<"b">> }                \* payloads of text-chunk lines

VARIABLES
    isGuestMode,            \* +page.svelte:23
    streaming,              \* +page.svelte:18
    useRag,                 \* +page.svelte:19
    messages,               \* +page.svelte:17
    pendingAssistantIndex,  \* +page.svelte:22
    ignoreFinalGuestSse,    \* +page.svelte:24
    cidCounter,             \* +page.svelte:12
    content,                \* the input component's `content`, as handleSend leaves it
    sending,                \* the input component's `sending`
    nsends,                 \* handleSend invocations so far
    sends,                  \* per invocation: locals of handleSend/handleGuestSent
    chats,                  \* +page.svelte:15 (the ids, in list order)
    selectedChatId,         \* +page.svelte:16
    tasks,                  \* refreshChats/loadChat/getOrCreateChat calls in flight
    markerChat,             \* history: the chat whose streamstart set pendingAssistantIndex
    ragTopK,                \* +page.svelte:20
    ragTemperature,         \* +page.svelte:21
    ragRequest,             \* history: the retrieval options of the last request built
    net                     \* one call of guestChatStream/streamMessage, step by step

vars == << isGuestMode, streaming, useRag, messages, pendingAssistantIndex,
           ignoreFinalGuestSse, cidCounter, content, sending, nsends, sends,
           chats, selectedChatId, tasks, markerChat, ragTopK, ragTemperature,
           ragRequest, net >>

\* what the wire-level steps of a stream call never touch
pageVars == << isGuestMode, streaming, useRag, messages, pendingAssistantIndex,
               ignoreFinalGuestSse, cidCounter, content, sending, nsends, sends,
               chats, selectedChatId, tasks, markerChat, ragTopK, ragTemperature,
               ragRequest >>

\* what the guest-mode handlers never touch
authVars == << chats, selectedChatId, tasks, markerChat >>

\* the retrieval fields of the page and the options of the last request
ragVars == << ragTopK, ragTemperature, ragRequest >>

SendIds == 1..MaxSends

\* ----------------------------------------------------------------- helpers
\* ChatMessage; `placeholder` is __placeholder, cid = 0 means "no cid field".
Msg(r, c, p, id) == [role |-> r, content |-> c, placeholder |-> p, cid |-> id]

\* An entry as the backend returns it (GuestChatResponse.messages carries
\* role/content/timestamp/data only).
ServerMsg(r, c) == Msg(r, c, FALSE, 0)

IsSpace(ch) == ch = " "

RECURSIVE TrimStart(_)
TrimStart(t) == IF t # <<>> /\ IsSpace(Head(t)) THEN TrimStart(Tail(t)) ELSE t

RECURSIVE TrimEnd(_)
TrimEnd(t) ==
    IF t # <<>> /\ IsSpace(t[Len(t)]) THEN TrimEnd(SubSeq(t, 1, Len(t) - 1)) ELSE t

\* a trim that removes nothing
TrimNothing(t) == t

\* String.prototype.trim
Trim(t) == TrimEnd(TrimStart(t))

\* Array.prototype.slice(0, -k)
DropLast(m, k) == SubSeq(m, 1, Len(m) - k)

\* Array.prototype.slice(-k)
TakeLast(m, k) == SubSeq(m, (IF Len(m) > k THEN Len(m) - k ELSE 0) + 1, Len(m))

\* messages[i] with a 0-based index
At(m, i) == m[i + 1]

InRange(m, i) == i >= 0 /\ i < Len(m)

\* nextCid(): ++cidCounter
nextCid(counter) == counter + 1

\* what a request's history field looks like to the backend when it echoes it
Strip(m) == [i \in 1..Len(m) |-> ServerMsg(m[i].role, m[i].content)]

\* The transcripts the backend may put into a response or a control event for
\* a request with history `hist` and new text `text`: the history followed by
\* the new user/assistant pair, the history followed by a repeated assistant
\* entry, and an empty transcript.
ServerTranscripts(hist, text) ==
    { Strip(hist) \o << ServerMsg("user", text), ServerMsg("assistant", <<"a">>) >>,
      Strip(hist) \o << ServerMsg("assistant", <<"a">>), ServerMsg("assistant", <<"a">>) >>,
      << >> }

\* The payload of the text-chunk line that follows those already delivered:
\* a stream body carries the chunks "a", "b", "a", ... in this order.
NextChunk(delivered) == IF Len(delivered) % 2 = 0 THEN <<"a">> ELSE <<"b">>

\* A request as it reaches the backend.
Req(k, text, hist) == [kind |-> k, content |-> text, messages |-> hist]

\* The locals of one handleSend invocation and of the handleGuestSent call it
\* dispatches: pc is the await it is suspended at; text, hist (the history
\* passed to the backend), acc and targetChatId are the code's locals;
\* delivered, events, control, phCid, userCid and reqs record what happened
\* (the chunks delivered, the callbacks invoked, whether onMessages ran, the
\* cids given to the optimistic pair, the requests issued).  live: handleSend
\* is still running and the input component that runs it is the mounted one;
\* streaming, useRag: the props of MessageInput as its instance was destroyed
\* with them, while handleSend has not yet read them.
IdleSend == [pc |-> "idle", text |-> <<>>, hist |-> <<>>, acc |-> <<>>,
             targetChatId |-> NULL, delivered |-> <<>>, events |-> 0,
             control |-> FALSE, phCid |-> 0, userCid |-> 0, reqs |-> <<>>,
             live |-> FALSE, streaming |-> FALSE, useRag |-> FALSE]

\* A finished invocation: its locals are gone, only how it ended remains
\* ("done": returned, "rejected": its promise rejected unobserved, "alerted":
\* the catch block of MessageInput.handleSend ran).
Finished(how) == [IdleSend EXCEPT !.pc = how]

\* ------------------------------------------------------ the input component
\* {#if messages.length === 0} ... {:else} ... {/if}: each branch renders an
\* input component of its own, so a step that takes the transcript from empty
\* to non-empty or back destroys the mounted input and creates a new one.
Flips(m, m2) == (Len(m) = 0) # (Len(m2) = 0)

\* A field of the mounted input component after a step that leaves the
\* transcript m2: `initial` in a new instance, `value` in the same instance.
Mounted(m2, initial, value) == IF Flips(messages, m2) THEN initial ELSE value

\* The invocations after such a step: those of a destroyed instance go on,
\* but what they assign to `content` and `sending` is no longer shown.
Detach(m2, snds) ==
    IF Flips(messages, m2)
    THEN [x \in SendIds |->
            IF snds[x].live /\ ~isGuestMode /\ snds[x].pc \in { "resolve", "tick" }
            THEN [snds[x] EXCEPT !.live = FALSE, !.streaming = streaming, !.useRag = useRag]
            ELSE [snds[x] EXCEPT !.live = FALSE]]
    ELSE snds

\* content, sending and the invocations after a step that leaves the
\* transcript m2 and, in the instance that ran it, the values c and f.
Remount(m2, c, f, snds) ==
    /\ content' = Mounted(m2, <<>>, c)
    /\ sending' = Mounted(m2, FALSE, f)
    /\ sends' = Detach(m2, snds)

\* ------------------------------------------------- persistence collaborator
ChatIds == { 1, 2 }

\* what createChat may resolve to: the id of the new chat
CreatedIds == { 2 }

\* what listChats may resolve to (the ids of the items, in order)
ChatLists == { <<>>, <<1>>, <<2, 1>> }

\* what getChat(id).chat may resolve to
ChatTranscripts ==
    { <<>>, << ServerMsg("user", <<"h">>), ServerMsg("assistant", <<"a">>) >> }

\* chats.find((c) => c.id === id)
Find(list, id) == \E i \in 1..Len(list) : list[i] = id

\* A call of the page in flight.  pc is the await it is suspended at: "create"
\* (createChat in getOrCreateChat), "list" (listChats in refreshChats), "get"
\* (getChat in loadChat).  cont is its caller: "none" (nobody awaits the
\* result), "mount" (onMount), "send" (resolveChat() in MessageInput.handleSend).
Task(pc, preferId, loadId, created, cont) ==
    [pc |-> pc, preferId |-> preferId, loadId |-> loadId, created |-> created,
     cont |-> cont]

\* refreshChats(preferId) up to `await listChats()`
RefreshTask(preferId, cont) == Task("list", preferId, NULL, NULL, cont)

\* loadChat(id) up to `await getChat(id)`
LoadTask(id, created, cont) == Task("get", NULL, id, created, cont)

\* getOrCreateChat() without a selected chat, up to `await createChat(...)`
CreateTask(cont) == Task("create", NULL, NULL, NULL, cont)


\* ------------------------------------------------------- retrieval options
\* a number of the page, in tenths (0.3 is 3, 4 is 40)
Tenths(t) == [given |-> TRUE, tenths |-> t]

\* null or undefined: no number
NoNumber == [given |-> FALSE, tenths |-> 0]

\* what bind:value of the Top K field may leave in ragTopK: null for an empty
\* field, or the number typed (min and max of the field do not stop typing)
TopKInputs == { NoNumber } \cup { Tenths(t) : t \in { 0 - 10, 0, 5, 10, 25, 40, 210 } }

\* what bind:value of the Temp field may leave in ragTemperature
TemperatureInputs == { NoNumber } \cup { Tenths(t) : t \in { 0 - 5, 0, 3, 20, 25 } }

\* the retrieval options of a request: use_rag, rag_top_k, rag_temperature
RagOptions(kind, rag, k, t) ==
    [kind |-> kind, use_rag |-> rag, rag_top_k |-> k, rag_temperature |-> t]

NoRagRequest == RagOptions("none", FALSE, NoNumber, NoNumber)

\* Math.floor of a number in tenths; Math.floor(null) is 0
Floor(n) == IF n.given THEN (n.tenths \div 10) * 10 ELSE 0

\* useRag ? Math.max(1, Math.floor(ragTopK)) : undefined
ClampTopK(rag, k) ==
    IF rag THEN Tenths(IF Floor(k) >= 10 THEN Floor(k) ELSE 10) ELSE NoNumber

\* useRag && ragTemperature != null ? Math.min(2, Math.max(0, ragTemperature)) : undefined
ClampTemperature(rag, t) ==
    IF rag /\ t.given
    THEN Tenths(IF t.tenths < 0 THEN 0 ELSE IF t.tenths > 20 THEN 20 ELSE t.tenths)
    ELSE NoNumber

\* sendMessage(targetChatId, text, { use_rag, rag_top_k: topK, rag_temperature: temp })
AuthOnceOptions(rag, k, t) ==
    RagOptions("once", rag, ClampTopK(rag, k), ClampTemperature(rag, t))

\* streamMessage(targetChatId, text, {}, ...)
AuthStreamOptions == RagOptions("stream", FALSE, NoNumber, NoNumber)

\* { use_rag: useRag, rag_top_k: ragTopK, rag_temperature: ragTemperature } of
\* guestChatStream and guestChat; a null is not written into the url
GuestOptions(kind, rag, k, t) == RagOptions(kind, rag, k, t)

\* --------------------------------------------------------------------- Init
\* the page after construction and onMount up to its first await
PageInit ==
    /\ isGuestMode \in BOOLEAN
    /\ streaming = TRUE
    /\ useRag = FALSE
    /\ messages = <<>>
    /\ pendingAssistantIndex = NULL
    /\ ignoreFinalGuestSse = FALSE
    /\ cidCounter = 0
    /\ content = <<>>
    /\ sending = FALSE
    /\ nsends = 0
    /\ sends = [s \in SendIds |-> IdleSend]
    /\ chats = <<>>
    /\ selectedChatId = NULL
    /\ tasks = IF isGuestMode THEN EmptyBag ELSE SetToBag({ RefreshTask(NULL, "mount") })
    /\ markerChat = NULL
    /\ ragTopK = Tenths(40)
    /\ ragTemperature = Tenths(3)
    /\ ragRequest = NoRagRequest

\* ------------------------------------------------------------ UI controls
\* the Streaming checkbox (disabled while useRag)
ToggleStreaming ==
    /\ ~useRag
    /\ streaming' = ~streaming
    /\ UNCHANGED << net, ragVars, authVars, isGuestMode, useRag, messages, pendingAssistantIndex,
                    ignoreFinalGuestSse, cidCounter, content, sending,
                    nsends, sends >>

\* the RAG checkbox, followed by the reactive `$: if (useRag) streaming = false`
ToggleRag ==
    /\ useRag' = ~useRag
    /\ streaming' = IF useRag' THEN FALSE ELSE streaming
    /\ UNCHANGED << net, ragVars, authVars, isGuestMode, messages, pendingAssistantIndex,
                    ignoreFinalGuestSse, cidCounter, content, sending,
                    nsends, sends >>

\* the mode test of handleGuestSent and of MessageInput.handleSend
UseStream(streamingFlag, ragFlag) == streamingFlag /\ ~ragFlag

\* the Top K field, shown while useRag: bind:value={ragTopK}
EditTopK(v) ==
    /\ useRag
    /\ ragTopK' = v
    /\ UNCHANGED << net, authVars, isGuestMode, streaming, useRag, messages,
                    pendingAssistantIndex, ignoreFinalGuestSse, cidCounter, content,
                    sending, nsends, sends, ragTemperature, ragRequest >>

\* the Temp field, shown while useRag: bind:value={ragTemperature}
EditTemperature(v) ==
    /\ useRag
    /\ ragTemperature' = v
    /\ UNCHANGED << net, authVars, isGuestMode, streaming, useRag, messages,
                    pendingAssistantIndex, ignoreFinalGuestSse, cidCounter, content,
                    sending, nsends, sends, ragTopK, ragRequest >>

\* The options of the request that a send builds first: the stream request or
\* the synchronous one, in guest and in authenticated mode.
BuildOptions ==
    /\ ragRequest' =
          IF isGuestMode
          THEN GuestOptions(IF UseStream(streaming, useRag) THEN "stream" ELSE "once",
                            useRag, ragTopK, ragTemperature)
          ELSE IF UseStream(streaming, useRag) THEN AuthStreamOptions
               ELSE AuthOnceOptions(useRag, ragTopK, ragTemperature)
    /\ UNCHANGED << net, authVars, isGuestMode, streaming, useRag, messages,
                    pendingAssistantIndex, ignoreFinalGuestSse, cidCounter, content,
                    sending, nsends, sends, ragTopK, ragTemperature >>

\* The options of the fallback guestChat, built in the catch block with the
\* values the page holds then.
BuildFallbackOptions ==
    /\ isGuestMode
    /\ ragRequest.kind = "stream"
    /\ ragRequest' = GuestOptions("fallback", useRag, ragTopK, ragTemperature)
    /\ UNCHANGED << net, authVars, isGuestMode, streaming, useRag, messages,
                    pendingAssistantIndex, ignoreFinalGuestSse, cidCounter, content,
                    sending, nsends, sends, ragTopK, ragTemperature >>

\* ------------------------------------------------- GuestMessageInput.handleSend
\* The user presses Send with `typed` in the textarea (bind:value={content}).
\* Either the guard returns, or up to `await tick()`: sending = true,
\* text = content, content = ''.
GuestHandleSend(typed) ==
    /\ isGuestMode
    /\ content' = IF Trim(typed) = <<>> \/ sending THEN typed ELSE <<>>
    /\ IF Trim(typed) = <<>> \/ sending
       THEN UNCHANGED << sending, nsends, sends >>
       ELSE /\ nsends < MaxSends
            /\ sending' = TRUE
            /\ nsends' = nsends + 1
            /\ sends' = [sends EXCEPT ![nsends + 1] =
                            [IdleSend EXCEPT !.pc = "tick", !.text = typed, !.live = TRUE]]
    /\ UNCHANGED << net, ragVars, authVars, isGuestMode, streaming, useRag, messages, pendingAssistantIndex,
                    ignoreFinalGuestSse, cidCounter >>

\* handleGuestSent, streaming branch, up to the first await inside
\* guestChatStream (the fetch): optimistic user entry, placeholder, request.
\* `messages = currentMessages` makes both names denote one array, so
\* messages.push(placeholder) appends to currentMessages as well, and
\* currentMessages.slice(0, -1), evaluated afterwards, drops the placeholder
\* and keeps the user entry.
GuestStreamStart(s) ==
    LET userCid == nextCid(cidCounter)
        phCid == nextCid(userCid)
        placeholder == Msg("assistant", <<>>, TRUE, phCid)
        currentMessages ==
            Append(Append(messages, Msg("user", sends[s].text, FALSE, userCid)),
                   placeholder)
        history == DropLast(currentMessages, 1)
    IN  /\ messages' = currentMessages
        /\ pendingAssistantIndex' = Len(currentMessages) - 1
        /\ ignoreFinalGuestSse' = FALSE
        /\ cidCounter' = phCid
        /\ sends' = Detach(currentMessages, [sends EXCEPT ![s] =
                        [@ EXCEPT !.pc = "fetch", !.hist = history,
                                  !.userCid = userCid, !.phCid = phCid, !.live = FALSE,
                                  !.reqs = Append(@, Req("stream", sends[s].text, history))]])

\* A non-streaming start that also pushes an assistant placeholder.
GuestOnceStartWithPlaceholder(s) ==
    LET userCid == nextCid(cidCounter)
        phCid == nextCid(userCid)
        history == messages
    IN  /\ messages' = Append(Append(messages, Msg("user", sends[s].text, FALSE, userCid)),
                              Msg("assistant", <<>>, TRUE, phCid))
        /\ cidCounter' = phCid
        /\ sends' = Detach(messages', [sends EXCEPT ![s] =
                        [@ EXCEPT !.pc = "once", !.hist = history, !.userCid = userCid,
                                  !.live = FALSE,
                                  !.reqs = Append(@, Req("once", sends[s].text, history))]])
        /\ UNCHANGED << pendingAssistantIndex, ignoreFinalGuestSse >>

\* handleGuestSent, non-streaming branch, up to the await of guestChat.
GuestOnceStart(s) ==
    LET userCid == nextCid(cidCounter)
        currentMessages == Append(messages, Msg("user", sends[s].text, FALSE, userCid))
        history == DropLast(currentMessages, 1)
    IN  /\ messages' = currentMessages
        /\ cidCounter' = userCid
        /\ sends' = Detach(messages', [sends EXCEPT ![s] =
                        [@ EXCEPT !.pc = "once", !.hist = history, !.userCid = userCid,
                                  !.live = FALSE,
                                  !.reqs = Append(@, Req("once", sends[s].text, history))]])
        /\ UNCHANGED << pendingAssistantIndex, ignoreFinalGuestSse >>

\* After tick(): dispatch('sent') runs handleGuestSent synchronously up to its
\* first await, then the finally block resets `sending` of the instance that
\* ran handleSend.
GuestDispatchSent(s) ==
    /\ sends[s].pc = "tick"
    /\ isGuestMode
    /\ IF UseStream(streaming, useRag) THEN GuestStreamStart(s) ELSE GuestOnceStart(s)
    /\ sending' = Mounted(messages', FALSE, IF sends[s].live THEN FALSE ELSE sending)
    /\ content' = Mounted(messages', <<>>, content)
    /\ UNCHANGED << net, ragVars, authVars, isGuestMode, streaming, useRag, nsends >>

\* ------------------------------------------------ handleGuestSent, continued
\* A fallback whose history holds the user entry once more.
GuestFallbackRequestWithUser(snd) ==
    [snd EXCEPT !.pc = "fallback",
                !.reqs = Append(@, Req("once", snd.text,
                                       Append(snd.hist, Msg("user", snd.text, FALSE, snd.userCid))))]

\* The catch block of handleGuestSent up to its await: the fallback request,
\* its history being currentMessages.slice(0, -1) again.
GuestFallbackRequest(snd) ==
    [snd EXCEPT !.pc = "fallback",
                !.reqs = Append(@, Req("once", snd.text, snd.hist))]

\* fetch resolved: `!res.ok || !res.body` throws, otherwise the reader loop starts.
GuestStreamResponse(s, ok) ==
    /\ isGuestMode
    /\ sends[s].pc = "fetch"
    /\ sends' = [sends EXCEPT ![s] =
                    IF ok THEN [@ EXCEPT !.pc = "read"] ELSE GuestFallbackRequest(@)]
    /\ UNCHANGED << net, ragVars, authVars, isGuestMode, streaming, useRag, messages, pendingAssistantIndex,
                    ignoreFinalGuestSse, cidCounter, content, sending, nsends >>

\* acc += chunk
Accumulate(acc, chunk) == acc \o chunk

\* messages[pendingAssistantIndex].content = acc; messages = [...messages]
WriteContent(m, i, acc) == [m EXCEPT ![i + 1].content = acc]

\* The onChunk callback of handleGuestSent.  Writing through an index that is
\* outside `messages` is a TypeError, which leaves guestChatStream as a
\* rejection and enters the catch block.
GuestOnChunk(s, chunk) ==
    /\ isGuestMode
    /\ sends[s].pc = "read"
    /\ sends[s].events < MaxEvents
    /\ LET acc == Accumulate(sends[s].acc, chunk)
           snd == [sends[s] EXCEPT !.acc = acc, !.events = @ + 1,
                                   !.delivered = Append(@, chunk)]
       IN  IF pendingAssistantIndex # NULL
           THEN IF InRange(messages, pendingAssistantIndex)
                THEN /\ messages' = WriteContent(messages, pendingAssistantIndex, acc)
                     /\ sends' = [sends EXCEPT ![s] = snd]
                ELSE /\ messages' = messages
                     /\ sends' = [sends EXCEPT ![s] = GuestFallbackRequest(snd)]
           ELSE /\ messages' = messages
                /\ sends' = [sends EXCEPT ![s] = snd]
    /\ UNCHANGED << net, ragVars, authVars, isGuestMode, streaming, useRag, pendingAssistantIndex,
                    ignoreFinalGuestSse, cidCounter, content, sending, nsends >>

\* The replacement of the optimistic pair by the snapshot's last two entries.
ReplaceTail(m, updatedMessages) == DropLast(m, 2) \o TakeLast(updatedMessages, 2)

\* A guard that drops both entries of a repeated tail.
DedupTailPair(m) ==
    IF Len(m) >= 2
       /\ m[Len(m)].role = m[Len(m) - 1].role
       /\ m[Len(m)].content = m[Len(m) - 1].content
    THEN DropLast(m, 2)
    ELSE m

\* De-duplicate consecutive identical (role+content) at tail.
DedupTail(m) ==
    IF Len(m) >= 2
       /\ m[Len(m)].role = m[Len(m) - 1].role
       /\ m[Len(m)].content = m[Len(m) - 1].content
    THEN DropLast(m, 1)
    ELSE m

\* messages[pendingAssistantIndex]?.__placeholder
PendingIsPlaceholder(m, i) == i # NULL /\ InRange(m, i) /\ At(m, i).placeholder

\* The transcript the onMessages callback leaves when it does not ignore.
Reconcile(m, i, updatedMessages) ==
    DedupTail(IF PendingIsPlaceholder(m, i) THEN ReplaceTail(m, updatedMessages)
              ELSE updatedMessages)

\* The onMessages callback of handleGuestSent.
GuestOnMessages(s, updatedMessages) ==
    /\ isGuestMode
    /\ sends[s].pc = "read"
    /\ sends[s].events < MaxEvents
    /\ messages' = IF ignoreFinalGuestSse THEN messages
                   ELSE Reconcile(messages, pendingAssistantIndex, updatedMessages)
    /\ pendingAssistantIndex' = NULL
    /\ ignoreFinalGuestSse' = FALSE
    /\ Remount(messages', content, sending,
               [sends EXCEPT ![s] = [@ EXCEPT !.events = @ + 1, !.control = TRUE]])
    /\ UNCHANGED << net, ragVars, authVars, isGuestMode, streaming, useRag, cidCounter, nsends >>

\* `data: [DONE]` or the end of the body: guestChatStream returns and with it
\* handleGuestSent.
GuestStreamEnd(s) ==
    /\ isGuestMode
    /\ sends[s].pc = "read"
    /\ sends' = [sends EXCEPT ![s] = Finished("done")]
    /\ UNCHANGED << net, ragVars, authVars, isGuestMode, streaming, useRag, messages, pendingAssistantIndex,
                    ignoreFinalGuestSse, cidCounter, content, sending, nsends >>

\* reader.read() rejects after the body was opened.
GuestReadError(s) ==
    /\ isGuestMode
    /\ sends[s].pc = "read"
    /\ sends' = [sends EXCEPT ![s] = GuestFallbackRequest(@)]
    /\ UNCHANGED << net, ragVars, authVars, isGuestMode, streaming, useRag, messages, pendingAssistantIndex,
                    ignoreFinalGuestSse, cidCounter, content, sending, nsends >>

\* A swap that appends the returned transcript to the optimistic one.
SwapTranscriptAppend(m, responseMessages) == m \o responseMessages

\* messages = response.messages
SwapTranscript(m, responseMessages) == responseMessages

\* The fallback guestChat resolved.
GuestFallbackOk(s, responseMessages) ==
    /\ isGuestMode
    /\ sends[s].pc = "fallback"
    /\ messages' = SwapTranscript(messages, responseMessages)
    /\ pendingAssistantIndex' = NULL
    /\ ignoreFinalGuestSse' = TRUE
    /\ Remount(messages', content, sending, [sends EXCEPT ![s] = Finished("done")])
    /\ UNCHANGED << net, ragVars, authVars, isGuestMode, streaming, useRag, cidCounter, nsends >>

\* The fallback guestChat rejected: the rejection leaves the catch block and
\* handleGuestSent's promise, which nobody awaits.
GuestFallbackFail(s) ==
    /\ isGuestMode
    /\ sends[s].pc = "fallback"
    /\ sends' = [sends EXCEPT ![s] = Finished("rejected")]
    /\ UNCHANGED << net, ragVars, authVars, isGuestMode, streaming, useRag, messages, pendingAssistantIndex,
                    ignoreFinalGuestSse, cidCounter, content, sending, nsends >>

\* The non-streaming guestChat resolved.
GuestOnceOk(s, responseMessages) ==
    /\ isGuestMode
    /\ sends[s].pc = "once"
    /\ messages' = SwapTranscript(messages, responseMessages)
    /\ Remount(messages', content, sending, [sends EXCEPT ![s] = Finished("done")])
    /\ UNCHANGED << net, ragVars, authVars, isGuestMode, streaming, useRag, pendingAssistantIndex,
                    ignoreFinalGuestSse, cidCounter, nsends >>

\* The non-streaming guestChat rejected.
GuestOnceFail(s) ==
    /\ isGuestMode
    /\ sends[s].pc = "once"
    /\ sends' = [sends EXCEPT ![s] = Finished("rejected")]
    /\ UNCHANGED << net, ragVars, authVars, isGuestMode, streaming, useRag, messages, pendingAssistantIndex,
                    ignoreFinalGuestSse, cidCounter, content, sending, nsends >>

\* ----------------------------------------------------- +page.svelte, chats
\* The catch and finally blocks of MessageInput.handleSend, in a step that
\* leaves the transcript m2: content = text; alert(...); sending = false, in
\* the instance that ran handleSend.
AuthCatchAfter(s, m2) ==
    Remount(m2, IF sends[s].live THEN sends[s].text ELSE content,
                IF sends[s].live THEN FALSE ELSE sending,
                [sends EXCEPT ![s] = Finished("alerted")])

\* The same in a step that leaves the transcript alone.
AuthCatch(s) == AuthCatchAfter(s, messages)

\* a getOrCreateChat that creates a chat for guests too
CreatesChatAnyMode(sel, guest) == sel = NULL

\* getOrCreateChat goes on to createChat: no chat is selected, and the page is
\* not in guest mode ("Guests cannot create persistent chats": return null)
CreatesChat(sel, guest) == sel = NULL /\ ~guest

\* The caller of a finished refreshChats/loadChat/getOrCreateChat resumes.
\* `sel` is selectedChatId and m2 the transcript as the call left them.
Continue(t, sel, rest, m2) ==
    CASE t.cont = "mount" /\ CreatesChat(sel, isGuestMode) /\ t.created = NULL ->
            \* onMount: if (!selectedChatId) await getOrCreateChat()
            /\ tasks' = rest (+) SetToBag({ CreateTask("none") })
            /\ Remount(m2, content, sending, sends)
      [] t.cont = "send" ->
            \* handleSend: targetChatId = await resolveChat(); content = ''; await tick()
            /\ tasks' = rest
            /\ \E s \in SendIds :
                  /\ sends[s].pc = "resolve"
                  /\ IF t.created # NULL
                     THEN Remount(m2, IF sends[s].live THEN <<>> ELSE content, sending,
                                  [sends EXCEPT ![s] =
                                      [@ EXCEPT !.pc = "tick", !.targetChatId = t.created]])
                     ELSE AuthCatchAfter(s, m2)
      [] OTHER ->
            /\ tasks' = rest
            /\ Remount(m2, content, sending, sends)

\* An await of the call rejected: the rejection reaches the caller.
Abort(t, rest) ==
    /\ tasks' = rest
    /\ IF t.cont = "send"
       THEN \E s \in SendIds : sends[s].pc = "resolve" /\ AuthCatch(s)
       ELSE UNCHANGED << content, sending, sends >>

InFlight(t) == BagIn(t, tasks)

Without(t) == tasks (-) SetToBag({ t })

\* createChat resolved in getOrCreateChat: refreshChats(created.id) starts.
CreateOk(t, id) ==
    /\ InFlight(t) /\ t.pc = "create"
    /\ tasks' = Without(t) (+) SetToBag({ Task("list", id, NULL, id, t.cont) })
    /\ UNCHANGED << net, ragVars, isGuestMode, streaming, useRag, messages, pendingAssistantIndex, markerChat,
                    ignoreFinalGuestSse, cidCounter, content, sending, nsends, sends,
                    chats, selectedChatId >>

\* the choice of refreshChats among preferId, selectedChatId and chats[0].id
NextId(list, preferId, sel) ==
    IF preferId # NULL /\ Find(list, preferId) THEN preferId
    ELSE IF sel # NULL /\ Find(list, sel) THEN sel
    ELSE list[1]

\* listChats resolved in refreshChats: either the empty-list branch, which
\* returns, or the choice of nextId and loadChat(nextId) up to its await.
ListOk(t, list) ==
    /\ InFlight(t) /\ t.pc = "list"
    /\ chats' = list
    /\ IF Len(list) = 0
       THEN /\ messages' = <<>>
            /\ pendingAssistantIndex' = NULL
            /\ markerChat' = NULL
            /\ selectedChatId' = NULL
            /\ Continue(t, NULL, Without(t), <<>>)
       ELSE /\ selectedChatId' = NextId(list, t.preferId, selectedChatId)
            /\ tasks' = Without(t) (+)
                  SetToBag({ LoadTask(NextId(list, t.preferId, selectedChatId),
                                      t.created, t.cont) })
            /\ UNCHANGED << messages, pendingAssistantIndex, markerChat, content, sending,
                            sends >>
    /\ UNCHANGED << net, ragVars, isGuestMode, streaming, useRag, ignoreFinalGuestSse, cidCounter,
                    nsends >>

\* getChat resolved in loadChat: messages = chat.chat || []; pendingAssistantIndex = null.
GetOk(t, chat) ==
    /\ InFlight(t) /\ t.pc = "get"
    /\ messages' = chat
    /\ pendingAssistantIndex' = NULL
    /\ markerChat' = NULL
    /\ Continue(t, selectedChatId, Without(t), chat)
    /\ UNCHANGED << net, ragVars, isGuestMode, streaming, useRag, ignoreFinalGuestSse, cidCounter,
                    nsends, chats, selectedChatId >>

\* createChat, listChats or getChat rejected.
TaskFail(t) ==
    /\ InFlight(t)
    /\ Abort(t, Without(t))
    /\ UNCHANGED << net, ragVars, isGuestMode, streaming, useRag, messages, pendingAssistantIndex, markerChat,
                    ignoreFinalGuestSse, cidCounter, nsends, chats, selectedChatId >>

\* Sidebar onSelect={loadChat}: selectedChatId = id, then await getChat(id).
SelectChat(id) ==
    /\ ~isGuestMode
    /\ Find(chats, id)
    /\ BagCardinality(tasks) < MaxTasks
    /\ selectedChatId' = id
    /\ tasks' = tasks (+) SetToBag({ LoadTask(id, NULL, "none") })
    /\ UNCHANGED << net, ragVars, isGuestMode, streaming, useRag, messages, pendingAssistantIndex, markerChat,
                    ignoreFinalGuestSse, cidCounter, content, sending, nsends, sends,
                    chats >>

\* The layout's onMount finds no valid token and calls setGuestMode(); the
\* page's `$: if ($isGuest !== isGuestMode)` block follows: isGuestMode = true,
\* messages = [], chats = [], selectedChatId = null.  The calls in flight go
\* on, and the template mounts a GuestMessageInput.
LayoutSetGuestMode ==
    /\ ~isGuestMode
    /\ isGuestMode' = TRUE
    /\ messages' = <<>>
    /\ chats' = <<>>
    /\ selectedChatId' = NULL
    /\ content' = <<>>
    /\ sending' = FALSE
    /\ sends' = [x \in SendIds |-> [sends[x] EXCEPT !.live = FALSE]]
    /\ UNCHANGED << net, ragVars, streaming, useRag, pendingAssistantIndex, markerChat,
                    ignoreFinalGuestSse, cidCounter, nsends, tasks >>

\* ------------------------------------------------- MessageInput.handleSend
\* The user presses Send with `typed` in the textarea.  Either the guard
\* returns, or up to the first await: resolveChat() when no chat is selected,
\* tick() otherwise.
AuthHandleSend(typed) ==
    /\ ~isGuestMode
    /\ IF Trim(typed) = <<>> \/ sending
       THEN /\ content' = typed
            /\ UNCHANGED << sending, nsends, sends, tasks >>
       ELSE /\ nsends < MaxSends
            /\ sending' = TRUE
            /\ nsends' = nsends + 1
            /\ IF selectedChatId = NULL
               THEN /\ sends' = [sends EXCEPT ![nsends + 1] =
                                    [IdleSend EXCEPT !.pc = "resolve", !.text = typed,
                                                     !.live = TRUE]]
                    /\ content' = typed
                    /\ tasks' = tasks (+) SetToBag({ CreateTask("send") })
               ELSE /\ sends' = [sends EXCEPT ![nsends + 1] =
                                    [IdleSend EXCEPT !.pc = "tick", !.text = typed,
                                                     !.targetChatId = selectedChatId,
                                                     !.live = TRUE]]
                    /\ content' = <<>>
                    /\ UNCHANGED tasks
    /\ UNCHANGED << net, ragVars, isGuestMode, streaming, useRag, messages, pendingAssistantIndex, markerChat,
                    ignoreFinalGuestSse, cidCounter, chats, selectedChatId >>

\* an on:streamstart handler that keeps the transcript shown when it selects
\* the target chat
OnStreamStartKeep(targetId, userText) ==
    /\ selectedChatId' = targetId
    /\ messages' = Append(Append(messages, Msg("user", userText, FALSE, 0)),
                          Msg("assistant", <<>>, FALSE, 0))
    /\ pendingAssistantIndex' = Len(messages) + 1
    /\ markerChat' = targetId

\* on:streamstart: select the target chat, append the user's message and an
\* empty assistant message, remember its index.
OnStreamStart(targetId, userText) ==
    LET base == IF selectedChatId # targetId THEN <<>> ELSE messages
        withUser == IF userText # <<>>
                    THEN Append(base, Msg("user", userText, FALSE, 0))
                    ELSE base
    IN  /\ selectedChatId' = targetId
        /\ messages' = Append(withUser, Msg("assistant", <<>>, FALSE, 0))
        /\ pendingAssistantIndex' = Len(withUser) + 1 - 1
        /\ markerChat' = targetId

\* After tick(): the streaming branch up to the fetch of streamMessage, or the
\* non-streaming branch up to the await of sendMessage.
AuthAfterTick(s) ==
    /\ ~isGuestMode
    /\ sends[s].pc = "tick"
    /\ IF UseStream(IF sends[s].live THEN streaming ELSE sends[s].streaming,
                    IF sends[s].live THEN useRag ELSE sends[s].useRag)
       THEN /\ OnStreamStart(sends[s].targetChatId, sends[s].text)
            /\ Remount(messages', content, sending,
                       [sends EXCEPT ![s] =
                           [@ EXCEPT !.pc = "fetch", !.streaming = FALSE, !.useRag = FALSE,
                                     !.reqs = Append(@, Req("stream", sends[s].text, <<>>))]])
       ELSE /\ sends' = [sends EXCEPT ![s] =
                            [@ EXCEPT !.pc = "once", !.streaming = FALSE, !.useRag = FALSE,
                                      !.reqs = Append(@, Req("once", sends[s].text, <<>>))]]
            /\ UNCHANGED << selectedChatId, messages, pendingAssistantIndex, markerChat,
                            content, sending >>
    /\ UNCHANGED << net, ragVars, isGuestMode, streaming, useRag, ignoreFinalGuestSse, cidCounter,
                    nsends, chats, tasks >>

\* fetch resolved in streamMessage: `!res.ok || !res.body` throws into the
\* catch block of handleSend, otherwise the reader loop starts.
AuthStreamResponse(s, ok) ==
    /\ ~isGuestMode
    /\ sends[s].pc = "fetch"
    /\ IF ok
       THEN /\ sends' = [sends EXCEPT ![s] = [@ EXCEPT !.pc = "read"]]
            /\ UNCHANGED << content, sending >>
       ELSE AuthCatch(s)
    /\ UNCHANGED << net, ragVars, isGuestMode, streaming, useRag, messages, pendingAssistantIndex, markerChat,
                    ignoreFinalGuestSse, cidCounter, nsends, chats, selectedChatId,
                    tasks >>

\* onChunk of handleSend and the on:stream handler it dispatches to.
AuthOnChunk(s, chunk) ==
    /\ ~isGuestMode
    /\ sends[s].pc = "read"
    /\ sends[s].events < MaxEvents
    /\ LET acc == Accumulate(sends[s].acc, chunk)
           snd == [sends[s] EXCEPT !.acc = acc, !.events = @ + 1,
                                   !.delivered = Append(@, chunk)]
       IN  IF sends[s].targetChatId = selectedChatId /\ pendingAssistantIndex # NULL
           THEN IF InRange(messages, pendingAssistantIndex)
                THEN /\ messages' = WriteContent(messages, pendingAssistantIndex, acc)
                     /\ sends' = [sends EXCEPT ![s] = snd]
                     /\ UNCHANGED << content, sending >>
                ELSE /\ messages' = messages
                     /\ AuthCatch(s)
           ELSE /\ messages' = messages
                /\ sends' = [sends EXCEPT ![s] = snd]
                /\ UNCHANGED << content, sending >>
    /\ UNCHANGED << net, ragVars, isGuestMode, streaming, useRag, pendingAssistantIndex, markerChat,
                    ignoreFinalGuestSse, cidCounter, nsends, chats, selectedChatId,
                    tasks >>

\* `data: [DONE]` or the end of the body: streamMessage returns, handleSend
\* dispatches streamend and finishes; the on:streamend handler finalizes the
\* assistant message and starts refreshChats(targetId).
AuthStreamEnd(s) ==
    /\ ~isGuestMode
    /\ sends[s].pc = "read"
    /\ IF sends[s].targetChatId = selectedChatId
       THEN /\ IF pendingAssistantIndex # NULL /\ InRange(messages, pendingAssistantIndex)
               THEN /\ messages' = WriteContent(messages, pendingAssistantIndex, sends[s].acc)
                    /\ pendingAssistantIndex' = NULL
                    /\ markerChat' = NULL
               ELSE UNCHANGED << messages, pendingAssistantIndex, markerChat >>
            /\ tasks' = tasks (+) SetToBag({ RefreshTask(sends[s].targetChatId, "none") })
       ELSE UNCHANGED << messages, pendingAssistantIndex, markerChat, tasks >>
    /\ sending' = IF sends[s].live THEN FALSE ELSE sending
    /\ sends' = [sends EXCEPT ![s] = Finished("done")]
    /\ UNCHANGED << net, ragVars, isGuestMode, streaming, useRag, ignoreFinalGuestSse, cidCounter,
                    content, nsends, chats, selectedChatId >>

\* reader.read() rejects after the body was opened: the catch block of handleSend.
AuthReadError(s) ==
    /\ ~isGuestMode
    /\ sends[s].pc = "read"
    /\ AuthCatch(s)
    /\ UNCHANGED << net, ragVars, isGuestMode, streaming, useRag, messages, pendingAssistantIndex, markerChat,
                    ignoreFinalGuestSse, cidCounter, nsends, chats, selectedChatId,
                    tasks >>

\* sendMessage resolved: dispatch('sent'), whose handler handleSent starts
\* refreshChats(chatId).
AuthOnceOk(s) ==
    /\ ~isGuestMode
    /\ sends[s].pc = "once"
    /\ tasks' = tasks (+) SetToBag({ RefreshTask(sends[s].targetChatId, "none") })
    /\ sending' = IF sends[s].live THEN FALSE ELSE sending
    /\ sends' = [sends EXCEPT ![s] = Finished("done")]
    /\ UNCHANGED << net, ragVars, isGuestMode, streaming, useRag, messages, pendingAssistantIndex, markerChat,
                    ignoreFinalGuestSse, cidCounter, content, nsends, chats,
                    selectedChatId >>

\* sendMessage rejected: the catch block of handleSend.
AuthOnceFail(s) ==
    /\ ~isGuestMode
    /\ sends[s].pc = "once"
    /\ AuthCatch(s)
    /\ UNCHANGED << net, ragVars, isGuestMode, streaming, useRag, messages, pendingAssistantIndex, markerChat,
                    ignoreFinalGuestSse, cidCounter, nsends, chats, selectedChatId,
                    tasks >>


\* ------------------------------------------- lib/apis/chats, the stream calls
\* guestChatStream and streamMessage at the level of the response body: the
\* characters of each read, the line buffer, the callbacks invoked.  A guest
\* page calls guestChatStream, an authenticated page streamMessage.
MaxReads == 3    \* reader.read() results with done = false in one call

CR == "\r"
LF == "\n"

DataPrefix == << "d", "a", "t", "a", ":", " " >>

DoneText == << "[", "D", "O", "N", "E", "]" >>

\* the payload of a control line whose data is the empty list
ControlText == << "{", "\"", "t", "y", "p", "e", "\"", ":", "\"", "m", "e", "s", "s", "a", "g", "e", "s", "\"", ",", "\"", "d", "a", "t", "a", "\"", ":", "[", "]", "}" >>

TrueText == << "t", "r", "u", "e" >>

FalseText == << "f", "a", "l", "s", "e" >>

NullText == << "n", "u", "l", "l" >>

EmptyObjectText == << "{", "}" >>

Digits == { "0", "1", "2", "3", "4", "5", "6", "7", "8", "9" }

\* what localStorage.getItem('token') may return: null (isNull), or a string
Tokens == { [isNull |-> TRUE, value |-> << >>],
            [isNull |-> FALSE, value |-> << >>],
            [isNull |-> FALSE, value |-> << "t" >>] }

\* a read that holds a data line, a [DONE] line and one more data line
LinesAroundDone ==
    << "d", "a", "t", "a", ":", " ", "a", "\n", "d", "a", "t", "a", ":", " ", "[", "D", "O", "N", "E", "]", "\n", "d", "a", "t", "a", ":", " ", "b", "\n" >>

\* what reader.read() may resolve to with done = false
ReadValues ==
    { << "d", "a", "t", "a", ":", " ", "a", "\n" >>,
      << "d", "a", "t", "a", ":", " ", "a", "\r", "\n" >>,
      << "d", "a", "t", "a", ":", " ", "7", "\n" >>,
      << "d", "a", "t", "a", ":", " ", "t", "r", "u", "e", "\n" >>,
      << "d", "a", "t", "a", ":", " ", "n", "u", "l", "l", "\n" >>,
      << "d", "a", "t", "a", ":", " ", "\"", "a", "\"", "\n" >>,
      << "d", "a", "t", "a", ":", " ", "{", "}", "\n" >>,
      << "d", "a", "t", "a", ":", " ", "{", "\"", "t", "y", "p", "e", "\"", ":", "\"", "m", "e", "s", "s", "a", "g", "e", "s", "\"", ",", "\"", "d", "a", "t", "a", "\"", ":", "[", "]", "}", "\n" >>,
      << "d", "a", "t", "a", ":", " ", "[", "D", "O", "N", "E", "]", "\n" >>,
      << "d", "a", "t", "a", ":", " ", "\n" >>,
      LinesAroundDone,
      << "d", "a", "t", "a", ":", " ", "a", "\r" >>,
      << "\n" >>,
      << "d", "a" >>,
      << "t", "a", ":", " ", "b", "\n" >>,
      << ":", "c", "\n" >>,
      << "d", "a", "t", "a", ":", "x", "\n" >>,
      << "d", "a", "t", "a", ":", " ", "[", "D", "O", "N", "E", "]" >> }

\* what fetch may resolve to: res.ok, whether res.body is set, what res.text()
\* yields (textFails: it rejects), res.statusText
Responses ==
    { r \in [ok : BOOLEAN, hasBody : BOOLEAN, text : { << >>, << "e" >> },
             textFails : BOOLEAN, statusText : { << >>, << "K" >> }] :
        r.hasBody \/ r.text = << >> }

NoResponse == [ok |-> FALSE, hasBody |-> FALSE, text |-> << >>, textFails |-> FALSE,
               statusText |-> << >>]

\* pc: "none" (no call), "start" (called), "fetch" (awaiting fetch), "read"
\* (awaiting reader.read()), "returned", "threw".  headers, buf and error are
\* the code's; token is what getToken() returns; resp (the response that made
\* the call throw), nreads, consumed (the text read so far), events (the
\* callbacks invoked, in order) and terminal (a [DONE] line was decoded) record
\* what happened.
NoCall == [pc |-> "none", token |-> [isNull |-> TRUE, value |-> << >>], headers |-> {}, resp |-> NoResponse,
           buf |-> << >>, nreads |-> 0, consumed |-> << >>, events |-> << >>,
           terminal |-> FALSE, error |-> << >>]

\* headers of streamMessage's fetch: if (token) headers['Authorization'] = ...
AuthStreamHeaders(token) ==
    { << "Accept", << "text/event-stream" >> >> } \cup
    ( IF ~token.isNull /\ token.value # << >>
      THEN { << "Authorization", << "Bearer " >> \o token.value >> }
      ELSE {} )

\* an error text that is always the status text
ErrorTextStatusOnly(resp) == resp.statusText

\* guest headers built the way streamMessage builds its own
GuestStreamHeadersWithToken(token) == AuthStreamHeaders(token)

\* headers of guestChatStream's fetch
GuestStreamHeaders(token) == { << "Accept", << "text/event-stream" >> >> }

\* text || res.statusText, text being `await res.text().catch(() => '')`
ErrorText(resp) ==
    LET text == IF resp.textFails THEN << >> ELSE resp.text
    IN  IF text # << >> THEN text ELSE resp.statusText

\* buf.split(/\r?\n/)
RECURSIVE SplitLines(_, _, _)
SplitLines(rest, cur, out) ==
    IF rest = << >> THEN Append(out, cur)
    ELSE IF Head(rest) = LF
         THEN SplitLines(Tail(rest), << >>,
                         Append(out, IF cur # << >> /\ cur[Len(cur)] = CR
                                     THEN DropLast(cur, 1) ELSE cur))
         ELSE SplitLines(Tail(rest), Append(cur, Head(rest)), out)

\* A test that stops one character short of the prefix.
StartsWithShort(line, prefix) ==
    Len(line) >= Len(prefix) - 1 /\ SubSeq(line, 1, Len(prefix) - 1) = SubSeq(prefix, 1, Len(prefix) - 1)

\* line.startsWith(prefix)
StartsWith(line, prefix) ==
    Len(line) >= Len(prefix) /\ SubSeq(line, 1, Len(prefix)) = prefix

\* line.slice(6)
Slice6(line) == SubSeq(line, 7, Len(line))

JsonSpace(ch) == ch \in { " ", "\t", LF, CR }

RECURSIVE JsonTrimStart(_)
JsonTrimStart(t) == IF t # << >> /\ JsonSpace(Head(t)) THEN JsonTrimStart(Tail(t)) ELSE t

RECURSIVE JsonTrimEnd(_)
JsonTrimEnd(t) ==
    IF t # << >> /\ JsonSpace(t[Len(t)]) THEN JsonTrimEnd(DropLast(t, 1)) ELSE t

JsonNumber(t) ==
    /\ t # << >>
    /\ \A i \in 1..Len(t) : t[i] \in Digits
    /\ (Len(t) > 1 => t[1] # "0")

JsonString(t) ==
    /\ Len(t) >= 2
    /\ t[1] = "\"" /\ t[Len(t)] = "\""
    /\ \A i \in 2..(Len(t) - 1) : t[i] \notin { "\"", "\\", "\t", LF, CR }

\* JSON.parse(data) on the scalars of the JSON grammar and on the object texts
\* above: ok = FALSE is a SyntaxError; kind is the kind of the value, type its
\* `type` member ("" when it has none), data its `data` member.
JsonParse(data) ==
    LET t == JsonTrimEnd(JsonTrimStart(data))
        value(k, ty) == [ok |-> TRUE, kind |-> k, type |-> ty, data |-> << >>]
    IN  CASE JsonNumber(t) -> value("number", "")
          [] JsonString(t) -> value("string", "")
          [] t = TrueText \/ t = FalseText -> value("boolean", "")
          [] t = NullText -> value("null", "")
          [] t = EmptyObjectText -> value("object", "")
          [] t = ControlText -> value("object", "messages")
          [] OTHER -> [ok |-> FALSE, kind |-> "", type |-> "", data |-> << >>]

ChunkEvent(data) == [kind |-> "chunk", data |-> data]

ControlEvent(data) == [kind |-> "messages", data |-> data]

\* guestChatStream, one data line that is not [DONE]: the callbacks invoked.
\* `parsed.type` of null is a TypeError inside the try, so the catch runs.
GuestDeliver(data) ==
    LET parsed == JsonParse(data)
    IN  IF parsed.ok /\ parsed.kind # "null"
        THEN IF parsed.type = "messages" THEN << ControlEvent(parsed.data) >> ELSE << >>
        ELSE << ChunkEvent(data) >>

\* streamMessage, one data line that is not [DONE]: onChunk?.(data)
AuthDeliver(data) == << ChunkEvent(data) >>

Deliver(guest, data) == IF guest THEN GuestDeliver(data) ELSE AuthDeliver(data)

\* a loop that goes on with the lines after a [DONE] line
RECURSIVE ProcessLinesPastDone(_, _, _)
ProcessLinesPastDone(guest, lines, events) ==
    IF lines = << >> THEN [events |-> events, done |-> FALSE]
    ELSE LET isData == StartsWith(Head(lines), DataPrefix)
             isDone == isData /\ Slice6(Head(lines)) = DoneText
             rest == ProcessLinesPastDone(guest, Tail(lines),
                        IF isData /\ ~isDone
                        THEN events \o Deliver(guest, Slice6(Head(lines)))
                        ELSE events)
         IN  [events |-> rest.events, done |-> rest.done \/ isDone]

\* for (const line of lines) { ... }: the callbacks invoked, and whether the
\* loop returned at a [DONE] line
RECURSIVE ProcessLines(_, _, _)
ProcessLines(guest, lines, events) ==
    IF lines = << >> THEN [events |-> events, done |-> FALSE]
    ELSE IF StartsWith(Head(lines), DataPrefix)
         THEN IF Slice6(Head(lines)) = DoneText
              THEN [events |-> events, done |-> TRUE]
              ELSE ProcessLines(guest, Tail(lines),
                                events \o Deliver(guest, Slice6(Head(lines))))
         ELSE ProcessLines(guest, Tail(lines), events)

\* The call up to `await fetch(...)`: the url, the token, the headers.
DecOpen ==
    /\ net.pc = "start"
    /\ net' = [net EXCEPT !.pc = "fetch",
                          !.headers = IF isGuestMode THEN GuestStreamHeaders(net.token)
                                      ELSE AuthStreamHeaders(net.token)]
    /\ UNCHANGED pageVars

\* fetch resolved: `!res.ok || !res.body` throws, otherwise getReader().
DecResponse(resp) ==
    /\ net.pc = "fetch"
    /\ net' = IF ~resp.ok \/ ~resp.hasBody
              THEN [net EXCEPT !.pc = "threw", !.resp = resp, !.error = ErrorText(resp)]
              ELSE [net EXCEPT !.pc = "read"]
    /\ UNCHANGED pageVars

\* A turn of the loop that splits the read alone, without the kept tail.
DecReadNoBuffer(value) ==
    /\ net.pc = "read"
    /\ net.nreads < MaxReads
    /\ LET lines == SplitLines(value, << >>, << >>)
           r == ProcessLines(isGuestMode, DropLast(lines, 1), net.events)
       IN  net' = [net EXCEPT !.pc = IF r.done THEN "returned" ELSE "read",
                              !.buf = lines[Len(lines)],
                              !.nreads = @ + 1,
                              !.consumed = @ \o value,
                              !.events = r.events,
                              !.terminal = r.done]
    /\ UNCHANGED pageVars

\* reader.read() resolved with done = false: one turn of the while loop.
DecRead(value) ==
    /\ net.pc = "read"
    /\ net.nreads < MaxReads
    /\ LET lines == SplitLines(net.buf \o value, << >>, << >>)
           r == ProcessLines(isGuestMode, DropLast(lines, 1), net.events)
       IN  net' = [net EXCEPT !.pc = IF r.done THEN "returned" ELSE "read",
                              !.buf = lines[Len(lines)],
                              !.nreads = @ + 1,
                              !.consumed = @ \o value,
                              !.events = r.events,
                              !.terminal = r.done]
    /\ UNCHANGED pageVars

\* An end of the body that treats the kept tail as one more line.
DecEndFlush ==
    /\ net.pc = "read"
    /\ LET r == ProcessLines(isGuestMode, << net.buf >>, net.events)
       IN  net' = [net EXCEPT !.pc = "returned", !.events = r.events, !.terminal = r.done]
    /\ UNCHANGED pageVars

\* reader.read() resolved with done = true: break, return.
DecEnd ==
    /\ net.pc = "read"
    /\ net' = [net EXCEPT !.pc = "returned"]
    /\ UNCHANGED pageVars

\* reader.read() rejected.
DecReadFail ==
    /\ net.pc = "read"
    /\ net' = [net EXCEPT !.pc = "threw"]
    /\ UNCHANGED pageVars

\* --------------------------------------------------------------------- Next
\* a session: the page after construction, no stream call followed on the wire
Init == PageInit /\ net = NoCall

\* the controls above the transcript, present in both modes
Controls ==
    \/ ToggleStreaming
    \/ ToggleRag

\* a guest session
GuestNext ==
    \/ \E typed \in Texts : GuestHandleSend(typed)
    \/ \E s \in SendIds :
          \/ GuestDispatchSent(s)
          \/ \E ok \in BOOLEAN : GuestStreamResponse(s, ok)
          \/ \E chunk \in Chunks :
                chunk = NextChunk(sends[s].delivered) /\ GuestOnChunk(s, chunk)
          \/ \E u \in ServerTranscripts(sends[s].hist, sends[s].text) :
                GuestOnMessages(s, u)
          \/ GuestStreamEnd(s)
          \/ GuestReadError(s)
          \/ \E r \in ServerTranscripts(sends[s].hist, sends[s].text) :
                GuestFallbackOk(s, r)
          \/ GuestFallbackFail(s)
          \/ \E r \in ServerTranscripts(sends[s].hist, sends[s].text) :
                GuestOnceOk(s, r)
          \/ GuestOnceFail(s)

\* an authenticated session
AuthNext ==
    \/ \E typed \in Texts : AuthHandleSend(typed)
    \/ \E s \in SendIds :
          \/ AuthAfterTick(s)
          \/ \E ok \in BOOLEAN : AuthStreamResponse(s, ok)
          \/ \E chunk \in Chunks :
                chunk = NextChunk(sends[s].delivered) /\ AuthOnChunk(s, chunk)
          \/ AuthStreamEnd(s)
          \/ AuthReadError(s)
          \/ AuthOnceOk(s)
          \/ AuthOnceFail(s)
    \/ \E id \in ChatIds : SelectChat(id)
    \/ \E t \in BagToSet(tasks) : \E id \in CreatedIds : CreateOk(t, id)
    \/ \E t \in BagToSet(tasks) : \E list \in ChatLists : ListOk(t, list)
    \/ \E t \in BagToSet(tasks) : \E chat \in ChatTranscripts : GetOk(t, chat)
    \/ \E t \in BagToSet(tasks) : TaskFail(t)

Next == Controls \/ GuestNext \/ AuthNext

\* a session of either mode
Spec == Init /\ [][Next]_vars

\* a session that starts, and stays, in guest mode
InitGuest == Init /\ isGuestMode = TRUE

NextGuest == Controls \/ GuestNext

SpecGuest == InitGuest /\ [][NextGuest]_vars

\* a session that starts, and stays, authenticated
InitAuth == Init /\ isGuestMode = FALSE

NextAuth == Controls \/ AuthNext

SpecAuth == InitAuth /\ [][NextAuth]_vars

\* one stream call on a page of either mode, followed at the level of the wire
InitDecode ==
    /\ PageInit
    /\ net \in { [NoCall EXCEPT !.pc = "start", !.token = tk] : tk \in Tokens }

NextDecode ==
    \/ DecOpen
    \/ \E resp \in Responses : DecResponse(resp)
    \/ \E value \in ReadValues : DecRead(value)
    \/ DecEnd
    \/ DecReadFail

SpecDecode == InitDecode /\ [][NextDecode]_vars

\* a page mounted before the layout has found out that there is no session:
\* onMount has started refreshChats, then the page turns to guest mode
NextBoot ==
    \/ Controls
    \/ LayoutSetGuestMode
    \/ GuestNext
    \/ \E t \in BagToSet(tasks) : \E id \in CreatedIds : CreateOk(t, id)
    \/ \E t \in BagToSet(tasks) : \E list \in ChatLists : ListOk(t, list)
    \/ \E t \in BagToSet(tasks) : \E chat \in ChatTranscripts : GetOk(t, chat)
    \/ \E t \in BagToSet(tasks) : TaskFail(t)

SpecBoot == InitAuth /\ [][NextBoot]_vars

\* the retrieval fields and the options of the requests built from them
NextRag ==
    \/ ToggleStreaming
    \/ ToggleRag
    \/ \E v \in TopKInputs : EditTopK(v)
    \/ \E v \in TemperatureInputs : EditTemperature(v)
    \/ BuildOptions
    \/ BuildFallbackOptions

SpecRag == Init /\ [][NextRag]_vars

\* ================================================================== claims
RECURSIVE Flatten(_)
Flatten(chunks) == IF chunks = <<>> THEN <<>> ELSE Head(chunks) \o Flatten(Tail(chunks))

Indices(m) == 1..Len(m)

\* the entries still marked __placeholder
Placeholders(m) == { i \in Indices(m) : m[i].placeholder }

\* the entry a guest send created as its placeholder is still in the transcript
HasOwnPlaceholder(s, m) ==
    \E i \in Indices(m) : m[i].cid = sends[s].phCid /\ m[i].placeholder

\* a send whose stream or fallback has not completed
ActiveSend(s) == sends[s].pc \in { "fetch", "read", "fallback" }

\* the step is a control callback of the stream of s
ControlStep(s) ==
    /\ sends[s].pc = "read"
    /\ sends'[s].pc = "read"
    /\ sends'[s].events = sends[s].events + 1
    /\ sends'[s].delivered = sends[s].delivered

\* the step ends the stream of s by the terminal event
TerminalStep(s) == sends[s].pc = "read" /\ sends'[s].pc = "done"

\* the step is a failure of the stream of s
StreamFailureStep(s) ==
    /\ sends[s].pc \in { "fetch", "read" }
    /\ sends'[s].pc \notin { "fetch", "read", "done" }

TailDuplicate(m) ==
    /\ Len(m) >= 2
    /\ m[Len(m)].role = m[Len(m) - 1].role
    /\ m[Len(m)].content = m[Len(m) - 1].content

\* C1: while a stream delivers text chunks and no control event has arrived,
\* the placeholder of that send holds the concatenation, in order, of the
\* chunks delivered so far (guest: the entry with the send's placeholder cid;
\* authenticated: the entry at pendingAssistantIndex of the shown chat).
C1_ChunkOrdering ==
    \A s \in SendIds :
        (sends[s].pc = "read" /\ ~sends[s].control) =>
            IF isGuestMode
            THEN \A i \in Indices(messages) :
                    (messages[i].cid = sends[s].phCid /\ messages[i].placeholder)
                        => messages[i].content = Flatten(sends[s].delivered)
            ELSE (/\ sends[s].targetChatId = selectedChatId
                  /\ pendingAssistantIndex # NULL
                  /\ InRange(messages, pendingAssistantIndex))
                    => At(messages, pendingAssistantIndex).content
                          = Flatten(sends[s].delivered)

\* C2: while a send's stream or fallback has not completed, no step accepts
\* another send: no other invocation leaves handleSend to append to the
\* transcript and issue a request.
C2_AtMostOneActiveSend ==
    [][ (\E s \in SendIds : ActiveSend(s))
            => \A s2 \in SendIds :
                  sends[s2].pc = "tick" => (sends'[s2].pc = "tick" /\ messages' = messages)
      ]_vars

\* C3 (I1): the transcript never holds more than one entry marked as placeholder.
C3_AtMostOnePlaceholder == Cardinality(Placeholders(messages)) <= 1

\* C4: a control event that arrives while the placeholder of its send is still
\* pending replaces exactly that send's optimistic pair, the last two entries,
\* by the last two entries of some snapshot of the send and keeps the rest
\* (the tail guard applied afterwards).
C4_ReplaceOptimisticPair ==
    [][ \A s \in SendIds :
          (ControlStep(s) /\ HasOwnPlaceholder(s, messages)) =>
              /\ Len(messages) >= 2
              /\ messages[Len(messages)].cid = sends[s].phCid
              /\ messages[Len(messages) - 1].cid = sends[s].userCid
              /\ \E u \in ServerTranscripts(sends[s].hist, sends[s].text) :
                    messages' = DedupTail(DropLast(messages, 2) \o TakeLast(u, 2))
      ]_vars

\* C5: when a stream ends by the terminal event and no control event arrived,
\* the placeholder keeps the accumulated text, is no longer marked as
\* placeholder, and pendingAssistantIndex is null.
C5_TerminalSettles ==
    [][ \A s \in SendIds :
          (TerminalStep(s) /\ ~sends[s].control /\ sends[s].phCid # 0) =>
              /\ pendingAssistantIndex' = NULL
              /\ \A i \in Indices(messages') :
                    messages'[i].cid = sends[s].phCid =>
                        /\ ~messages'[i].placeholder
                        /\ messages'[i].content = Flatten(sends[s].delivered)
      ]_vars

\* C6 (idempotent tail): after a control event, and after a successful
\* fallback, the last two entries differ in role or in content.
C6_IdempotentTail ==
    [][ \A s \in SendIds :
          (ControlStep(s) \/ (sends[s].pc = "fallback" /\ sends'[s].pc = "done"))
              => ~TailDuplicate(messages')
      ]_vars

\* the requests of a streaming guest send that fell back: the stream request
\* and one synchronous request with the same text and history
FellBackOnce(snd) ==
    snd.reqs = << Req("stream", snd.text, snd.hist), Req("once", snd.text, snd.hist) >>

C9_FallbackFailure ==
    [][ \A s \in SendIds :
          (sends[s].pc = "fallback" /\ sends'[s].pc \notin { "fallback", "done" }) =>
              /\ \E i \in Indices(messages') : messages'[i].cid = sends[s].userCid
              /\ \A i \in Indices(messages') : messages'[i].cid # sends[s].phCid
              /\ pendingAssistantIndex' = NULL
              /\ sends'[s].pc = "alerted"
      ]_vars

\* no call of a send is in flight and the input accepts a new send
Quiescent ==
    /\ ~sending
    /\ \A s \in SendIds : sends[s].pc \in { "idle", "done", "rejected", "alerted" }

\* C10: once every network call of the accepted sends has completed or
\* failed, the controller is Idle and clean: pendingAssistantIndex is null and
\* no entry is still marked as placeholder.
C10_CleanIdle ==
    Quiescent => (pendingAssistantIndex = NULL /\ Placeholders(messages) = {})

\* ------------------------------------------------------ the stream calls
\* the lines of a text that a newline completes
CompleteLines(text) == DropLast(SplitLines(text, << >>, << >>), 1)

IsDoneLine(line) == line = DataPrefix \o DoneText

\* the lines before the first [DONE] line
RECURSIVE BeforeDone(_)
BeforeDone(lines) ==
    IF lines = << >> \/ IsDoneLine(Head(lines)) THEN << >>
    ELSE << Head(lines) >> \o BeforeDone(Tail(lines))

\* a payload as the frame classification puts it: a control event when it
\* parses to an object with type "messages", a text chunk, verbatim, otherwise
Classify(data) ==
    IF JsonParse(data).ok /\ JsonParse(data).kind = "object"
       /\ JsonParse(data).type = "messages"
    THEN ControlEvent(JsonParse(data).data)
    ELSE ChunkEvent(data)

RECURSIVE Classified(_)
Classified(lines) ==
    IF lines = << >> THEN << >>
    ELSE ( IF StartsWith(Head(lines), DataPrefix)
           THEN << Classify(Slice6(Head(lines))) >> ELSE << >> )
         \o Classified(Tail(lines))

\* C11 (frame classification): the callbacks guestChatStream has invoked are,
\* in order, one per complete `data: ` line read before the first [DONE]
\* line: the control callback for a payload that parses to an object with type
\* "messages", the chunk callback with the payload verbatim for every other
\* payload.
C11_FrameClassification ==
    (isGuestMode /\ net.pc \in { "read", "returned" }) =>
        net.events = Classified(BeforeDone(CompleteLines(net.consumed)))

\* C12: once a [DONE] line has been decoded the call has returned, the
\* callbacks invoked are those of the lines before that line, whatever follows
\* it in the same read, and nothing is invoked or read afterwards.
C12_NothingAfterDone ==
    /\ [](net.terminal =>
            /\ net.pc = "returned"
            /\ net.events =
                 ProcessLines(isGuestMode, BeforeDone(CompleteLines(net.consumed)),
                              << >>).events)
    /\ [][ net.terminal => net' = net ]_vars

\* a read with a data line after the [DONE] line was decoded
C12_Witness ==
    /\ net.terminal
    /\ net.consumed = LinesAroundDone
    /\ net.events = << ChunkEvent(<< "a" >>) >>

\* C13: a response that is not ok, or has no body, makes the call throw before
\* any callback is invoked, with the body text as the error text when that is
\* non-empty and the status text otherwise; every other response starts the
\* reader loop.
C13_TransportFailure ==
    /\ [][ \A resp \in Responses :
             DecResponse(resp) =>
                 IF ~resp.ok \/ ~resp.hasBody
                 THEN /\ net'.pc = "threw"
                      /\ net'.events = << >>
                      /\ net'.error =
                           IF ~resp.textFails /\ resp.text # << >>
                           THEN resp.text ELSE resp.statusText
                 ELSE net'.pc = "read"
         ]_vars
    /\ []((net.pc = "threw" /\ net.nreads = 0) => net.events = << >>)

\* a 404 with an error body made the call throw with that body as the text
C13_Witness ==
    /\ net.pc = "threw"
    /\ ~net.resp.ok
    /\ net.resp.text = << "e" >>
    /\ net.error = << "e" >>

HasAuthorization(headers) == \E h \in headers : h[1] = "Authorization"

\* C20: the request of streamMessage carries `Authorization: Bearer <token>`
\* exactly when getToken() returns a non-empty token, and the request of
\* guestChatStream never carries an Authorization header.
C20_AuthorizationHeader ==
    net.pc \notin { "none", "start" } =>
        IF isGuestMode
        THEN ~HasAuthorization(net.headers)
        ELSE /\ HasAuthorization(net.headers)
                  <=> (~net.token.isNull /\ net.token.value # << >>)
             /\ \A h \in net.headers :
                   h[1] = "Authorization" => h[2] = << "Bearer " >> \o net.token.value

\* a guest page with a token in the store has issued its stream request
C20_Witness ==
    /\ isGuestMode
    /\ net.pc = "fetch"
    /\ net.token.value = << "t" >>

\* ------------------------------------------------------------ the page, II
\* the step issues a stream request for s
OpensStream(s) ==
    /\ Len(sends'[s].reqs) = Len(sends[s].reqs) + 1
    /\ sends'[s].reqs[Len(sends'[s].reqs)].kind = "stream"

\* C14: while useRag is true no step opens a stream: a send that leaves
\* handleSend's tick goes to the synchronous request, and only to it, in guest
\* and in authenticated mode.
C14_RagNeverStreams ==
    [][ useRag =>
          \A s \in SendIds :
              /\ ~OpensStream(s)
              /\ (sends[s].pc = "tick" /\ sends'[s].pc # "tick") =>
                    /\ sends'[s].pc = "once"
                    /\ sends'[s].reqs = << Req("once", sends[s].text, sends'[s].hist) >>
      ]_vars

\* a text that is empty or holds only whitespace
Blank(t) == \A i \in 1..Len(t) : t[i] = " "

\* C15: pressing Send with an empty or whitespace-only text changes nothing
\* but what the textarea holds: the transcript, pendingAssistantIndex, the
\* sending flag, the sends (no event dispatched, no request issued) and the
\* calls in flight are unchanged.
C15_BlankRejected ==
    [][ \A typed \in Texts :
          (Blank(typed) /\ (GuestHandleSend(typed) \/ AuthHandleSend(typed))) =>
              UNCHANGED << messages, pendingAssistantIndex, ignoreFinalGuestSse,
                           cidCounter, sending, nsends, sends, chats,
                           selectedChatId, tasks >>
      ]_vars

\* a whitespace-only text was submitted to a fresh page and nothing happened
C15_Witness ==
    /\ content = << " " >>
    /\ nsends = 0
    /\ ~sending
    /\ messages = << >>

\* the step is a chunk callback of the stream of s
ChunkStep(s) ==
    /\ sends[s].pc = "read"
    /\ Len(sends'[s].delivered) = Len(sends[s].delivered) + 1

\* C16 (token-addressed updates): a chunk callback of a guest send changes at
\* most the entry that was created as that send's placeholder, wherever the
\* transcript was spliced in between, and nothing when that entry is gone.
C16_TokenAddressed ==
    [][ \A s \in SendIds :
          (isGuestMode /\ ChunkStep(s)) =>
              /\ Len(messages') = Len(messages)
              /\ \A i \in Indices(messages) :
                    messages'[i] # messages[i] => messages[i].cid = sends[s].phCid
      ]_vars

\* C17 (I4): after the control event of a stream, every later chunk callback
\* of that stream leaves the transcript unchanged.
C17_RetiredPlaceholder ==
    [][ \A s \in SendIds :
          (ChunkStep(s) /\ sends[s].control) => messages' = messages
      ]_vars

StreamsInFlight == { s \in SendIds : sends[s].pc \in { "fetch", "read" } }

FallbacksInFlight == { s \in SendIds : sends[s].pc = "fallback" }

\* C18: at most one stream request is in flight, at most one fallback request
\* is in flight, and never both.
C18_OneRequestInFlight ==
    /\ Cardinality(StreamsInFlight) <= 1
    /\ Cardinality(FallbacksInFlight) <= 1
    /\ (StreamsInFlight = {} \/ FallbacksInFlight = {})

\* C19: in an authenticated session the step that completes a send, streaming
\* or not, starts refreshChats for the chat that was sent to.
C19_RefreshAfterSend ==
    [][ \A s \in SendIds :
          (~isGuestMode /\ sends[s].pc \in { "read", "once" } /\ sends'[s].pc = "done") =>
              tasks' = tasks (+) SetToBag({ RefreshTask(sends[s].targetChatId, "none") })
      ]_vars

\* ----------------------------------------------------------- the page, III
\* an entry carries nothing local: no cid, no __placeholder
NothingLocal(m) == \A i \in Indices(m) : m[i].cid = 0 /\ ~m[i].placeholder

\* C21: no request of a guest send carries a cid or the placeholder marker in
\* its history.
C21_NoLocalTokenSent ==
    \A s \in SendIds :
        \A k \in 1..Len(sends[s].reqs) : NothingLocal(sends[s].reqs[k].messages)

AdjacentDuplicate(m) ==
    \E i \in 1..(Len(m) - 1) :
        m[i].role = m[i + 1].role /\ m[i].content = m[i + 1].content

\* C22 (I2): when no send is in flight the transcript holds no two adjacent
\* entries with the same role and the same content.
C22_NoAdjacentDuplicate ==
    (isGuestMode /\ Quiescent) => ~AdjacentDuplicate(messages)

\* the transcript after the step is `base` followed by the user entry of s
\* and an empty assistant entry, which pendingAssistantIndex designates
EndsWithPair(s, base) ==
    LET n == Len(messages')
    IN  /\ n = Len(base) + 2
        /\ SubSeq(messages', 1, Len(base)) = base
        /\ messages'[n - 1].role = "user"
        /\ messages'[n - 1].content = sends[s].text
        /\ messages'[n].role = "assistant"
        /\ messages'[n].content = << >>
        /\ pendingAssistantIndex' = n - 1

\* C23, as stated: the step that opens a stream grows the transcript by
\* exactly the user entry and an empty assistant placeholder, the last entry,
\* which pendingAssistantIndex designates.
C23_GrowsByTwo ==
    [][ \A s \in SendIds : OpensStream(s) => EndsWithPair(s, messages) ]_vars

\* C23, amended: the step that opens a stream leaves the user entry and an
\* empty assistant placeholder as the last two entries, pendingAssistantIndex
\* designating the placeholder; they follow the transcript shown before,
\* except in an authenticated session whose selected chat is not the chat
\* sent to: there the handler selects that chat and the pair is the whole
\* transcript.
C23_PairAfterReset ==
    [][ \A s \in SendIds :
          OpensStream(s) =>
              IF isGuestMode \/ selectedChatId = sends[s].targetChatId
              THEN EndsWithPair(s, messages)
              ELSE EndsWithPair(s, << >>) /\ selectedChatId' = sends[s].targetChatId
      ]_vars

\* the first send of an authenticated session has opened its stream
C23_Witness ==
    /\ ~isGuestMode
    /\ sends[1].pc = "fetch"
    /\ selectedChatId = sends[1].targetChatId
    /\ messages = << Msg("user", << "h" >>, FALSE, 0), Msg("assistant", << >>, FALSE, 0) >>
    /\ pendingAssistantIndex = 1

\* C24: the step in which a guest send issues its first request (stream or
\* non-streaming) puts the transcript as it was before the optimistic user
\* entry was appended into the history field and the text into the content
\* field only, and every later request of the send (the fallback) carries the
\* same history.
C24_HistoryExcludesUser ==
    [][ \A s \in SendIds :
          (isGuestMode /\ sends[s].pc = "tick" /\ sends'[s].pc # "tick") =>
              /\ Len(sends'[s].reqs) = 1
              /\ sends'[s].reqs[1].content = sends[s].text
              /\ sends'[s].reqs[1].messages = messages
              /\ sends'[s].hist = messages
      ]_vars

\* the transcript of a control callback before its tail guard runs, for the
\* snapshot u
BeforeGuard(u) ==
    IF PendingIsPlaceholder(messages, pendingAssistantIndex)
    THEN ReplaceTail(messages, u)
    ELSE u

\* C25: the tail guard of a control callback that is not ignored removes at
\* most one entry: the transcript it leaves is the transcript after the
\* replacement without its last entry when the last two entries of that
\* transcript have the same role and the same content, and that transcript
\* itself otherwise.
C25_GuardDropsAtMostOne ==
    [][ \A s \in SendIds :
          (isGuestMode /\ ControlStep(s) /\ ~ignoreFinalGuestSse) =>
              \E u \in ServerTranscripts(sends[s].hist, sends[s].text) :
                  messages' = IF TailDuplicate(BeforeGuard(u))
                              THEN SubSeq(BeforeGuard(u), 1, Len(BeforeGuard(u)) - 1)
                              ELSE BeforeGuard(u)
      ]_vars

\* C25 witness: the control event of the first streaming send carried a
\* repeated assistant entry, and the guard left one of the two.
C25_Witness ==
    /\ isGuestMode
    /\ nsends = 1
    /\ sends[1].pc = "read"
    /\ sends[1].control
    /\ messages = << ServerMsg("assistant", <<"a">>) >>

\* the step starts the non-streaming request of s
OnceStartStep(s) == sends[s].pc = "tick" /\ sends'[s].pc = "once"

\* the step is the success of the non-streaming request of s
OnceOkStep(s) == sends[s].pc = "once" /\ sends'[s].pc = "done"

\* the step appends the user entry of s, and nothing else, to the transcript
AppendsUserOnly(s) ==
    /\ Len(messages') = Len(messages) + 1
    /\ SubSeq(messages', 1, Len(messages)) = messages
    /\ messages'[Len(messages')].role = "user"
    /\ messages'[Len(messages')].content = sends[s].text
    /\ ~messages'[Len(messages')].placeholder

\* the step issues the one synchronous request of s
OneSyncRequest(s) ==
    /\ Len(sends'[s].reqs) = 1
    /\ sends'[s].reqs[1].kind = "once"
    /\ sends'[s].reqs[1].content = sends[s].text

\* C26 as stated: in guest mode and in authenticated mode the start of a
\* non-streaming send appends the optimistic user entry and no placeholder,
\* issues one synchronous request and leaves the active-send marker alone.
C26_AppendsInBothModes ==
    [][ \A s \in SendIds :
          OnceStartStep(s) =>
              /\ AppendsUserOnly(s)
              /\ OneSyncRequest(s)
              /\ pendingAssistantIndex' = pendingAssistantIndex
      ]_vars

\* C26: a non-streaming send issues exactly one synchronous request and never
\* sets the active-send marker.  In guest mode its start appends the optimistic
\* user entry and no placeholder, and its success makes the transcript the one
\* the request returned.  In authenticated mode neither its start nor its
\* success changes the transcript; its success starts a reload of the chat
\* list that prefers the chat sent to.
C26_NonStreamingSend ==
    [][ \A s \in SendIds :
          /\ OnceStartStep(s) =>
                /\ OneSyncRequest(s)
                /\ pendingAssistantIndex' = pendingAssistantIndex
                /\ IF isGuestMode THEN AppendsUserOnly(s) ELSE messages' = messages
          /\ (sends[s].pc = "once" /\ sends'[s].pc = "once") =>
                sends'[s].reqs = sends[s].reqs
          /\ OnceOkStep(s) =>
                /\ pendingAssistantIndex' = pendingAssistantIndex
                /\ IF isGuestMode
                   THEN messages' \in ServerTranscripts(sends[s].hist, sends[s].text)
                   ELSE /\ messages' = messages
                        /\ BagIn(RefreshTask(sends[s].targetChatId, "none"), tasks')
      ]_vars

\* C26 witness: the first guest send is non-streaming; its request is out, the
\* transcript holds the user entry alone and no entry is marked.
C26_Witness ==
    /\ isGuestMode
    /\ nsends = 1
    /\ sends[1].pc = "once"
    /\ Len(sends[1].reqs) = 1
    /\ messages = << Msg("user", <<"h">>, FALSE, 1) >>
    /\ pendingAssistantIndex = NULL

\* a line that begins with the six characters d a t a : space
IsDataLine(line) ==
    /\ Len(line) >= 6
    /\ line[1] = "d" /\ line[2] = "a" /\ line[3] = "t" /\ line[4] = "a"
    /\ line[5] = ":" /\ line[6] = " "

\* C27: the complete lines that do not begin with `data: ` cause no chunk, no
\* control and no terminal event: the callbacks invoked and the terminal
\* return are those of the text with these lines taken out.
C27_OtherLinesIgnored ==
    net.pc \in { "read", "returned" } =>
        LET kept == ProcessLines(isGuestMode,
                                 SelectSeq(CompleteLines(net.consumed), IsDataLine), << >>)
        IN  /\ net.events = kept.events
            /\ net.terminal = kept.done

\* C27 witness: a comment line, `data:x` and an empty line were read, and no
\* callback was invoked.
C27_Witness ==
    /\ net.pc = "read"
    /\ net.consumed = << ":", "c", "\n", "d", "a", "t", "a", ":", "x", "\n", "\n" >>
    /\ net.events = << >>
    /\ ~net.terminal

\* the step is the end of the body: read() resolved with done = true
BodyEndStep ==
    net.pc = "read" /\ net'.pc = "returned" /\ net'.nreads = net.nreads

\* C28: when the body ends, the kept tail is dropped: no callback is invoked
\* and the call does not return by the terminal event, whatever the tail is.
C28_TailDiscarded ==
    [][ BodyEndStep => (net'.events = net.events /\ ~net'.terminal) ]_vars

\* C28 witness: the body ended after `data: [DONE]` without a newline, and
\* nothing was surfaced.
C28_Witness ==
    /\ net.pc = "returned"
    /\ net.consumed = DataPrefix \o DoneText
    /\ net.buf = DataPrefix \o DoneText
    /\ net.events = << >>
    /\ ~net.terminal

\* the kept tail of a text: what follows its last newline
Residual(text) == SplitLines(text, << >>, << >>)[Len(SplitLines(text, << >>, << >>))]

\* C29: however the text read so far was cut into reads, the callbacks
\* invoked, the terminal return and the kept tail are those of the same text
\* arriving in one read.
C29_PartitionIndependent ==
    net.pc \in { "read", "returned" } =>
        LET whole == ProcessLines(isGuestMode, CompleteLines(net.consumed), << >>)
        IN  /\ net.events = whole.events
            /\ net.terminal = whole.done
            /\ net.pc = "read" => net.buf = Residual(net.consumed)

\* C29 witness: a read ended between the CR and the LF of a line ending, and
\* the line was delivered once, without the CR.
C29_Witness ==
    /\ net.nreads = 2
    /\ net.consumed = << "d", "a", "t", "a", ":", " ", "a", "\r", "\n" >>
    /\ net.events = << ChunkEvent(<< "a" >>) >>

\* C30: a chunk or control callback of the stream of one guest send leaves
\* the user entry and the placeholder that another send, still under way,
\* created in the transcript as they were: neither written into nor removed.
C30_NoInterference ==
    [][ \A s \in SendIds : \A other \in SendIds \ { s } :
          (isGuestMode /\ ActiveSend(other) /\ (ChunkStep(s) \/ ControlStep(s))) =>
              \A i \in Indices(messages) :
                  messages[i].cid \in { sends[other].userCid, sends[other].phCid } =>
                      \E j \in Indices(messages') : messages'[j] = messages[i]
      ]_vars

\* a send whose stream, or the fallback of its stream, is under way and whose
\* placeholder is the entry at 0-based index i of the transcript shown
PlaceholderOfSendInFlight(s, i) ==
    /\ sends[s].pc \in { "fetch", "read", "fallback" }
    /\ IF isGuestMode
       THEN At(messages, i).cid = sends[s].phCid /\ At(messages, i).placeholder
       ELSE sends[s].targetChatId = selectedChatId

\* C31: whenever pendingAssistantIndex is not null it is an index of the
\* transcript, the entry there has role assistant, and it is the placeholder
\* of a send in flight.
C31_MarkerValid ==
    pendingAssistantIndex # NULL =>
        /\ InRange(messages, pendingAssistantIndex)
        /\ At(messages, pendingAssistantIndex).role = "assistant"
        /\ \E s \in SendIds : PlaceholderOfSendInFlight(s, pendingAssistantIndex)

\* the entry at 1-based position i is the placeholder at the active-send marker
MarkedPlaceholder(i) ==
    /\ pendingAssistantIndex # NULL
    /\ i = pendingAssistantIndex + 1
    /\ messages[i].role = "assistant"
    /\ isGuestMode => messages[i].placeholder

\* C32: a chunk callback changes nothing but the content of the placeholder
\* entry: the transcript keeps its length and order, and every entry other
\* than the placeholder at the active-send marker keeps role and content.
C32_ChunkFrame ==
    [][ \A s \in SendIds :
          ChunkStep(s) =>
              /\ Len(messages') = Len(messages)
              /\ \A i \in Indices(messages) :
                    messages'[i] # messages[i] =>
                        /\ MarkedPlaceholder(i)
                        /\ messages'[i] = [messages[i] EXCEPT !.content = messages'[i].content]
      ]_vars

\* the step is a chunk or the terminal event of the authenticated stream of s
AuthStreamEvent(s) == ~isGuestMode /\ (ChunkStep(s) \/ TerminalStep(s))

\* in authenticated mode a stream event whose chat id is not the selected one
\* leaves the transcript and the active-send marker unchanged
ForeignEventsIgnored ==
    [][ \A s \in SendIds :
          (AuthStreamEvent(s) /\ sends[s].targetChatId # selectedChatId) =>
              /\ messages' = messages
              /\ pendingAssistantIndex' = pendingAssistantIndex
      ]_vars

\* C33: in authenticated mode stream events of a chat other than the selected
\* one leave the transcript and the marker unchanged, so that a stream event
\* writes into the transcript only when the placeholder at the marker was
\* appended for the chat of that stream, also while the load of a chat the
\* user switched to is awaited.
C33_NoCrossChatWrite ==
    /\ ForeignEventsIgnored
    /\ [][ \A s \in SendIds :
              (AuthStreamEvent(s) /\ messages' # messages) =>
                  markerChat = sends[s].targetChatId
        ]_vars

\* the chunk callbacks among the callbacks invoked, in order
ChunksOf(events) == SelectSeq(events, LAMBDA e : e.kind = "chunk")

\* no complete `data: ` line of the text carries a control event
NoControlIn(text) ==
    \A i \in Indices(CompleteLines(text)) :
        IsDataLine(CompleteLines(text)[i]) =>
            Classify(Slice6(CompleteLines(text)[i])).kind # "messages"

\* C34: on a body without control event, guestChatStream and streamMessage
\* invoke the chunk callback with the same payloads in the same order and
\* return by the terminal event at the same line; the call under way is one of
\* the two.
C34_DecodersAgree ==
    (net.pc \in { "read", "returned" } /\ NoControlIn(net.consumed)) =>
        LET guest == ProcessLines(TRUE, CompleteLines(net.consumed), << >>)
            auth == ProcessLines(FALSE, CompleteLines(net.consumed), << >>)
        IN  /\ net.events = (IF isGuestMode THEN guest.events ELSE auth.events)
            /\ ChunksOf(guest.events) = ChunksOf(auth.events)
            /\ guest.done = auth.done

\* the step takes the send s into the streaming branch of handleGuestSent
GuestStreamStartStep(s) ==
    isGuestMode /\ sends[s].pc \notin { "fetch", "read" } /\ sends'[s].pc = "fetch"

\* C35: the control event of a guest stream that is still being read is never
\* ignored because of the flag that the fallback of another send set (a send
\* settled by its fallback has no stream left to deliver one), and every
\* streaming send starts with ignoreFinalGuestSse cleared.
C35_IgnoreOwnOnly ==
    [][ \A s \in SendIds :
          /\ (isGuestMode /\ ControlStep(s)) => ~ignoreFinalGuestSse
          /\ GuestStreamStartStep(s) => ~ignoreFinalGuestSse'
      ]_vars

\* a number that is an integer, at least 1
PositiveInteger(n) == n.tenths % 10 = 0 /\ n.tenths >= 10

\* a number of [0, 2]
UnitTemperature(n) == n.tenths >= 0 /\ n.tenths <= 20

\* C36: whatever the fields hold, a request that carries rag_top_k carries an
\* integer that is at least 1, and one that carries rag_temperature carries a
\* number of [0, 2]: the authenticated synchronous request and the guest
\* stream, fallback and non-streaming requests.
C36_OptionsInRange ==
    /\ ragRequest.rag_top_k.given => PositiveInteger(ragRequest.rag_top_k)
    /\ ragRequest.rag_temperature.given => UnitTemperature(ragRequest.rag_temperature)

\* the step ends MessageInput.handleSend of s
AuthFinishStep(s) ==
    /\ ~isGuestMode
    /\ sends[s].pc \in { "resolve", "tick", "fetch", "read", "once" }
    /\ sends'[s].pc \in { "alerted", "done" }

\* the step ends MessageInput.handleSend of s in its catch block
AuthFailureStep(s) == AuthFinishStep(s) /\ sends'[s].pc = "alerted"

\* when handleSend of s ends, the input it ran in is free again
SendingReset ==
    [][ \A s \in SendIds : (AuthFinishStep(s) /\ sends[s].live) => sending' = FALSE ]_vars

\* when no chat can be resolved, handleSend dispatches nothing and requests
\* nothing: the transcript, the marker and the selection are untouched, no
\* refreshChats is started and the send has issued no request
NothingWithoutChat ==
    [][ \A s \in SendIds :
          (AuthFailureStep(s) /\ sends[s].pc = "resolve") =>
              /\ sends[s].reqs = << >>
              /\ messages' = messages
              /\ pendingAssistantIndex' = pendingAssistantIndex
              /\ selectedChatId' = selectedChatId
              /\ BagCardinality(tasks') < BagCardinality(tasks)
      ]_vars

\* C37: MessageInput.handleSend resets `sending` whenever it ends, on success
\* and on every failure; on a failure the input holds the submitted text
\* again; and when no chat can be resolved nothing is dispatched and nothing
\* requested.
C37_ResetAndRestore ==
    /\ SendingReset
    /\ NothingWithoutChat
    /\ [][ \A s \in SendIds : AuthFailureStep(s) => content' = sends[s].text ]_vars

\* the load that a refreshChats awaited by onMount or by handleSend started
RefreshLoad(t) == t.pc = "get" /\ t.cont \in { "mount", "send" }

\* the id that the priority preferred / selected / first picks in a list
ChosenBy(list, preferId, sel, id) ==
    /\ Find(list, id)
    /\ (preferId # NULL /\ Find(list, preferId)) => id = preferId
    /\ (~(preferId # NULL /\ Find(list, preferId)) /\ sel # NULL /\ Find(list, sel)) =>
           id = sel
    /\ (~(preferId # NULL /\ Find(list, preferId)) /\ ~(sel # NULL /\ Find(list, sel))) =>
           id = list[1]

\* refreshChats, up to its return on an empty list or to the load it starts:
\* nothing selected and nothing shown, or the chat picked by priority selected
RefreshChoice ==
    [][ \A t \in BagToSet(tasks) : \A list \in ChatLists :
          ListOk(t, list) =>
              IF list = << >>
              THEN /\ selectedChatId' = NULL
                   /\ messages' = << >>
                   /\ pendingAssistantIndex' = NULL
              ELSE /\ ChosenBy(list, t.preferId, selectedChatId, selectedChatId')
                   /\ \E u \in BagToSet(tasks') :
                         u.pc = "get" /\ u.loadId = selectedChatId'
      ]_vars

\* C38: when refreshChats completes, nothing is selected if the list is empty,
\* and otherwise the chat it picked by priority (preferred, previously
\* selected, first) is the selected one, it is in the list, and the transcript
\* shown is the one loaded for it, with no active-send marker.
C38_RefreshOutcome ==
    /\ RefreshChoice
    /\ [][ \A t \in BagToSet(tasks) : \A chat \in ChatTranscripts :
              (RefreshLoad(t) /\ GetOk(t, chat)) =>
                  /\ selectedChatId' = t.loadId
                  /\ Find(chats', selectedChatId')
                  /\ messages' = chat
                  /\ pendingAssistantIndex' = NULL
        ]_vars

\* the step belongs to a guest-mode send: handleSend of GuestMessageInput or
\* handleGuestSent moved on
GuestSendStep ==
    isGuestMode /\ (nsends' # nsends \/ \E s \in SendIds : sends'[s].pc # sends[s].pc)

\* C39: a step of a guest-mode send starts no listChats, createChat or getChat
\* call and touches none that is in flight, and no step taken in guest mode
\* starts a createChat: getOrCreateChat returns null there.
C39_GuestNeverPersists ==
    [][ /\ GuestSendStep => tasks' = tasks
        /\ isGuestMode =>
              \A u \in BagToSet(tasks') :
                  u.pc = "create" => CopiesIn(u, tasks') <= CopiesIn(u, tasks)
      ]_vars

\* C39 witness: the page turned to guest mode while the refreshChats of onMount
\* was awaited; a guest stream is being read, the refresh has ended on an
\* empty list with no chat selected, and no call is in flight.
C39_Witness ==
    /\ isGuestMode
    /\ \E s \in SendIds : sends[s].pc = "read"
    /\ tasks = EmptyBag
    /\ selectedChatId = NULL

====
